---- MODULE Spec2Model ----
(***************************************************************************)
(* SecureCheck: the traffic-stop ledger.                                   *)
(*   process_data.py   ingestion entry point: preprocess_data and          *)
(*                     create_and_load_database                            *)
(*   data_cleaning.py  the stand-alone preprocess_data                     *)
(*   app.py            the Streamlit service: log_new_stop, fetch_data,    *)
(*                     the analytics catalog and the log search            *)
(*                                                                         *)
(* A DataFrame is [cols, rows]: cols the set of column names, rows a       *)
(* sequence of functions from cols to cells.  A cell is [tag, val]: the    *)
(* tag is the Python type of the value ("nan" for a missing value), val    *)
(* what it holds.  Text that the search reads is a sequence of characters. *)
(***************************************************************************)
EXTENDS Integers, Sequences, FiniteSets, TLC

VARIABLES db, assigned, engine, resp, ingested, inserts, norm

vars == <<db, assigned, engine, resp, ingested, inserts, norm>>

-----------------------------------------------------------------------------
(* Bounds of the model *)

MaxNormRows == 2
MaxBatchRows == 2
MaxInserts == 2

-----------------------------------------------------------------------------
(* Cells *)

Cell(t, v) == [tag |-> t, val |-> v]

NaNText == Cell("nan", <<>>)
NaNStr == Cell("nan", "")
NaNNum == Cell("nan", 0)
NaT == Cell("nat", 0)

isna(c) == c.tag \in {"nan", "nat"}

Unknown == <<"U", "n", "k", "n", "o", "w", "n">>
NoneConducted == "None Conducted"

BoolCols == <<"search_conducted", "is_arrested", "drugs_related_stop">>

-----------------------------------------------------------------------------
(* pandas operations used by preprocess_data *)

Frame(c, r) == [cols |-> c, rows |-> r]

EmptyFrame == Frame({}, <<>>)

Failed(e) == [err |-> e, df |-> EmptyFrame]

Done(f) == [err |-> "", df |-> f]

\* df[cols]: the frame restricted to the columns keep
Project(df, keep) ==
    Frame(keep, [i \in 1..Len(df.rows) |-> [c \in keep |-> df.rows[i][c]]])

\* df.dropna(axis=1, how='all'): a column stays when some row holds a value
\* in it; a frame without rows keeps no column
dropna_all(df) ==
    Project(df, {c \in df.cols : \E i \in 1..Len(df.rows) : ~isna(df.rows[i][c])})

\* df.drop(columns=[col], errors='ignore')
drop_column(df, col) == Project(df, df.cols \ {col})

\* the column col of df with f applied to each of its cells
MapColumn(df, col, f(_)) ==
    Frame(df.cols,
          [i \in 1..Len(df.rows) |->
              [c \in df.cols |-> IF c = col THEN f(df.rows[i][c]) ELSE df.rows[i][c]]])

\* df[col].fillna(value, inplace=True): the missing cells of the column
\* become value, the frame is written through df[col]
fillna_inplace(df, col, value) ==
    LET fill(c) == IF isna(c) THEN value ELSE c
    IN  MapColumn(df, col, fill)

\* astype(bool) of one cell: Python truthiness.  NaN is a non-zero float,
\* a string is true unless it is empty.
as_bool(c) ==
    CASE c.tag = "bool" -> c
      [] c.tag = "nan"  -> Cell("bool", "True")
      [] c.tag = "int"  -> Cell("bool", IF c.val = "0" THEN "False" ELSE "True")
      [] OTHER          -> Cell("bool", IF c.val = "" THEN "False" ELSE "True")

\* the loop over the three boolean columns
RECURSIVE astype_bool(_, _)
astype_bool(df, k) ==
    IF k = 0 THEN df
    ELSE MapColumn(astype_bool(df, k - 1), BoolCols[k], as_bool)

\* pd.to_datetime(df['stop_date']).dt.date of one cell
to_date(c) ==
    CASE c.tag \in {"str", "date"} -> Cell("date", c.val)
      [] OTHER                     -> NaT

\* pd.to_datetime(df['stop_time'], ...).dt.time of one cell.  With a format
\* a value that is no string is parsed from str(value).
to_time(c) ==
    CASE c.tag \in {"str", "time"} -> Cell("time", c.val)
      [] OTHER                     -> NaT

\* the first error pd.to_datetime raises on the column, "" when it parses
DateError(df) ==
    IF \E i \in 1..Len(df.rows) : df.rows[i]["stop_date"].tag = "badstr"
    THEN "ValueError" ELSE ""

TimeError(df, with_format) ==
    IF \E i \in 1..Len(df.rows) : df.rows[i]["stop_time"].tag = "badstr"
    THEN "ValueError"
    ELSE IF ~with_format /\ \E i \in 1..Len(df.rows) : df.rows[i]["stop_time"].tag = "time"
    THEN "TypeError"
    ELSE ""

\* the statements of preprocess_data; with_format is the format='%H:%M:%S'
\* argument that only data_cleaning.py passes
Preprocess(df, with_format) ==
    LET d1 == drop_column(dropna_all(df), "driver_age_raw")
    IN
    IF "search_type" \notin d1.cols THEN Failed("KeyError") ELSE
    LET d2 == fillna_inplace(d1, "search_type", Cell("str", NoneConducted))
    IN
    IF "vehicle_number" \notin d2.cols THEN Failed("KeyError") ELSE
    LET d3 == fillna_inplace(d2, "vehicle_number", Cell("str", Unknown))
    IN
    IF \E k \in 1..Len(BoolCols) : BoolCols[k] \notin d3.cols THEN Failed("KeyError") ELSE
    LET d4 == astype_bool(d3, Len(BoolCols))
    IN
    IF "stop_date" \notin d4.cols THEN Failed("KeyError") ELSE
    IF DateError(d4) # "" THEN Failed(DateError(d4)) ELSE
    LET d5 == MapColumn(d4, "stop_date", to_date)
    IN
    IF "stop_time" \notin d5.cols THEN Failed("KeyError") ELSE
    IF TimeError(d5, with_format) # "" THEN Failed(TimeError(d5, with_format)) ELSE
    Done(MapColumn(d5, "stop_time", to_time))

\* process_data.py
preprocess_data(df) == Preprocess(df, FALSE)

\* data_cleaning.py
cleaning_preprocess_data(df) == Preprocess(df, TRUE)

-----------------------------------------------------------------------------
(* The persisted store: the SQLite file police_logs.db *)

\* the columns of CREATE TABLE traffic_stops
TableCols ==
    {"stop_id", "stop_date", "stop_time", "country_name", "driver_gender",
     "driver_age", "driver_race", "violation_raw", "violation",
     "search_conducted", "search_type", "stop_outcome", "is_arrested",
     "stop_duration", "drugs_related_stop", "vehicle_number"}

NotNullCols ==
    {"stop_date", "stop_time", "country_name", "violation", "search_conducted",
     "is_arrested", "drugs_related_stop"}

CharCols == {"country_name", "vehicle_number"}

NumCols == {"stop_id", "stop_date", "stop_time", "driver_age", "driver_age_raw"} \cup
           {BoolCols[k] : k \in 1..Len(BoolCols)}

\* SQL NULL in column col
NullOf(col) ==
    Cell("null", IF col \in CharCols THEN <<>> ELSE IF col \in NumCols THEN 0 ELSE "")

\* what to_sql binds for a cell: a missing value is NULL, a bool is 1 or 0,
\* a date or a time is its ISO text (kept as the number that orders it)
sql_value(col, c) ==
    CASE isna(c)                   -> NullOf(col)
      [] c.tag = "bool"            -> Cell("int", IF c.val = "True" THEN 1 ELSE 0)
      [] c.tag \in {"date", "time"} -> Cell("text", c.val)
      [] c.tag = "str"             -> Cell("text", c.val)
      [] OTHER                     -> c

NoDatabase == [kind |-> "none", cols |-> {}, rows |-> <<>>]

StopIds(database) ==
    IF "stop_id" \in database.cols
    THEN {database.rows[i]["stop_id"].val : i \in 1..Len(database.rows)}
    ELSE {}

Max(S) == CHOOSE m \in S : \A x \in S : x <= m

\* the rowid SQLite gives a row inserted without a stop_id
NextRowId(database) ==
    IF StopIds(database) = {} THEN 1 ELSE Max(StopIds(database)) + 1

\* the row of the table that a frame row becomes; id is the stop_id bound
\* from the index, or -1 when the insert names no stop_id: the INTEGER
\* PRIMARY KEY of the ledger table is then the rowid
TableRow(database, fcols, frow, id) ==
    [c \in database.cols |->
        IF c \in fcols THEN sql_value(c, frow[c])
        ELSE IF c = "stop_id" /\ id >= 0 THEN Cell("int", id)
        ELSE IF c = "stop_id" /\ database.kind = "ledger" THEN Cell("int", NextRowId(database))
        ELSE NullOf(c)]

\* one INSERT statement; the result is [err, db]
InsertRow(database, fcols, frow, id) ==
    LET row == TableRow(database, fcols, frow, id)
    IN
    IF ~(fcols \subseteq database.cols) \/ (id >= 0 /\ "stop_id" \notin database.cols)
    THEN [err |-> "OperationalError", db |-> database]
    ELSE IF \E c \in NotNullCols \cap database.cols : row[c].tag = "null"
    THEN [err |-> "IntegrityError", db |-> database]
    ELSE IF database.kind = "ledger" /\ row["stop_id"].val \in StopIds(database)
    THEN [err |-> "IntegrityError", db |-> database]
    ELSE [err |-> "", db |-> [database EXCEPT !.rows = Append(@, row)]]

\* the executemany of to_sql inside its transaction, rows 1..n in order
RECURSIVE InsertRows(_, _, _, _)
InsertRows(database, df, n, with_index) ==
    IF n = 0 THEN [err |-> "", db |-> database]
    ELSE LET before == InsertRows(database, df, n - 1, with_index)
         IN  IF before.err # "" THEN before
             ELSE InsertRow(before.db, df.cols, df.rows[n], IF with_index THEN n - 1 ELSE -1)

\* to_sql with if_exists='replace': the table is dropped and made anew
ReplaceToSql(database, df, with_index) ==
    LET target == [kind |-> "inferred",
                   cols |-> df.cols \cup (IF with_index THEN {"stop_id"} ELSE {}),
                   rows |-> <<>>]
        done == InsertRows(target, df, Len(df.rows), with_index)
    IN  IF done.err # "" THEN [err |-> done.err, db |-> database] ELSE done

\* DataFrame.to_sql(TABLE_NAME, engine, if_exists='append', ...): creates the
\* table from the frame's columns when there is none, and rolls the whole
\* insert back on an error
to_sql(database, df, with_index) ==
    LET target == IF database.kind = "none"
                  THEN [kind |-> "inferred",
                        cols |-> df.cols \cup (IF with_index THEN {"stop_id"} ELSE {}),
                        rows |-> <<>>]
                  ELSE database
        done == InsertRows(target, df, Len(df.rows), with_index)
    IN  IF done.err # "" THEN [err |-> done.err, db |-> database] ELSE done

\* process_data.py: create_and_load_database
create_and_load_database(df, database) ==
    LET created == IF database.kind = "none"
                   THEN [kind |-> "ledger", cols |-> TableCols, rows |-> <<>>]
                   ELSE database
        loaded == to_sql(created, df, TRUE)
    IN  IF loaded.err # "" THEN created ELSE loaded.db

\* process_data.py: __main__.  The existing file is removed before the
\* dataset is read; exists says whether traffic_stops.csv is there.
ingest_main(database, exists, raw) ==
    IF ~exists THEN NoDatabase
    ELSE LET processed == preprocess_data(raw)
         IN  IF processed.err # "" THEN NoDatabase
             ELSE create_and_load_database(processed.df, NoDatabase)

-----------------------------------------------------------------------------
(* Input rows *)

Str(s) == Cell("str", s)
Int_(n) == Cell("int", n)
Bool(b) == Cell("bool", IF b THEN "True" ELSE "False")

\* a row of traffic_stops.csv as read_csv returns it
RawRow(date, time, country, age, sc, st, ia, drugs, veh) ==
    [c \in (TableCols \cup {"driver_age_raw"}) \ {"stop_id"} |->
        CASE c = "stop_date" -> date
          [] c = "stop_time" -> time
          [] c = "country_name" -> country
          [] c = "driver_gender" -> Str("M")
          [] c = "driver_age_raw" -> age
          [] c = "driver_age" -> age
          [] c = "driver_race" -> Str("Asian")
          [] c = "violation_raw" -> Str("Speeding")
          [] c = "violation" -> Str("Speeding")
          [] c = "search_conducted" -> sc
          [] c = "search_type" -> st
          [] c = "stop_outcome" -> Str("Citation")
          [] c = "is_arrested" -> ia
          [] c = "stop_duration" -> Str("0-15 Min")
          [] c = "drugs_related_stop" -> drugs
          [] OTHER -> veh]

RawCols == (TableCols \cup {"driver_age_raw"}) \ {"stop_id"}

RECURSIVE SeqsUpTo(_, _)
SeqsUpTo(S, n) ==
    IF n = 0 THEN {<<>>}
    ELSE LET shorter == SeqsUpTo(S, n - 1)
         IN  shorter \cup {Append(s, x) : s \in {t \in shorter : Len(t) = n - 1}, x \in S}

IngestRows ==
    { RawRow(Str(1), Str(1), Str(<<"R", "J">>), Int_(20), Bool(FALSE), NaNStr,
             Bool(TRUE), Bool(FALSE), NaNText),
      RawRow(Str(2), Str(1), Str(<<"I", "n">>), Int_(15), Bool(FALSE), Str("Frisk"),
             Bool(FALSE), Bool(TRUE), Str(<<"J", "'">>)) }

IngestFrames == {Frame(RawCols, r) : r \in SeqsUpTo(IngestRows, MaxBatchRows)}

-----------------------------------------------------------------------------
(* SQL evaluation *)

SearchLimit == 50
TopVehicles == 10

Take(s, n) == IF Len(s) <= n THEN s ELSE SubSeq(s, 1, n)

Range(s) == {s[i] : i \in 1..Len(s)}

\* the sequences that list the finite set S with no element after one that
\* goes strictly before it (B holds the pairs <<z, y>> with z strictly before
\* y): the row orders ORDER BY allows
RECURSIVE OrderedBy(_, _)
OrderedBy(S, B) ==
    IF S = {} THEN {<<>>}
    ELSE UNION {{<<x>> \o rest : rest \in OrderedBy(S \ {x}, B)} :
                x \in {y \in S : \A z \in S : <<z, y>> \notin B}}

Ordered(S, before(_, _)) == OrderedBy(S, {p \in S \X S : before(p[1], p[2])})

LowerCase == <<"a", "b", "c", "d", "e", "f", "g", "h", "i", "j", "k", "l", "m",
               "n", "o", "p", "q", "r", "s", "t", "u", "v", "w", "x", "y", "z">>
UpperCase == <<"A", "B", "C", "D", "E", "F", "G", "H", "I", "J", "K", "L", "M",
               "N", "O", "P", "Q", "R", "S", "T", "U", "V", "W", "X", "Y", "Z">>

\* LIKE compares ASCII letters without regard to case
Fold(ch) ==
    IF \E i \in 1..Len(LowerCase) : LowerCase[i] = ch
    THEN UpperCase[CHOOSE i \in 1..Len(LowerCase) : LowerCase[i] = ch]
    ELSE ch

Tail_(s, k) == SubSeq(s, k, Len(s))

\* text LIKE pattern: % matches any run of characters, _ any one character
RECURSIVE Like(_, _)
Like(pattern, text) ==
    IF pattern = <<>> THEN text = <<>>
    ELSE IF Head(pattern) = "%"
    THEN \E k \in 1..(Len(text) + 1) : Like(Tail(pattern), Tail_(text, k))
    ELSE /\ text # <<>>
         /\ Head(pattern) = "_" \/ Fold(Head(pattern)) = Fold(Head(text))
         /\ Like(Tail(pattern), Tail(text))

\* How SQLite reads the characters of term once they stand between the
\* quotes of '%{term}%': two quotes are one quote character of the literal,
\* a single quote ends the literal and the rest of term is read as SQL.
RECURSIVE Unquote(_)
Unquote(term) ==
    IF term = <<>> THEN [closed |-> FALSE, text |-> <<>>]
    ELSE IF Head(term) # "'"
    THEN LET rest == Unquote(Tail(term))
         IN  [closed |-> rest.closed, text |-> <<Head(term)>> \o rest.text]
    ELSE IF Len(term) >= 2 /\ term[2] = "'"
    THEN LET rest == Unquote(Tail(Tail(term)))
         IN  [closed |-> rest.closed, text |-> <<"'">> \o rest.text]
    ELSE [closed |-> TRUE, text |-> <<>>]

\* country_name LIKE '%...%' OR vehicle_number LIKE '%...%'
where_clause(row, text) ==
    \/ row["country_name"].tag # "null"
       /\ Like(<<"%">> \o text \o <<"%">>, row["country_name"].val)
    \/ row["vehicle_number"].tag # "null"
       /\ Like(<<"%">> \o text \o <<"%">>, row["vehicle_number"].val)

SearchCols ==
    {"stop_id", "stop_date", "stop_time", "country_name", "vehicle_number",
     "violation", "stop_outcome", "is_arrested", "drugs_related_stop"}

\* ORDER BY stop_date DESC, stop_time DESC
Newer(r1, r2) ==
    \/ r1["stop_date"].val > r2["stop_date"].val
    \/ r1["stop_date"].val = r2["stop_date"].val /\ r1["stop_time"].val > r2["stop_time"].val

\* app.py: final_query on the table.  [err, out]: out is the set of results
\* the statement may return (rows that tie in the order come in any order).
\* Every term of Terms that ends the literal early makes a statement
\* that does not compile or whose pattern is NULL: no row either way.
final_query(database, term) ==
    IF database.kind = "none" \/ ~(SearchCols \subseteq database.cols)
    THEN [err |-> "OperationalError", out |-> {<<>>}]
    ELSE IF term # <<>> /\ Unquote(term).closed
    THEN [err |-> "Unparsed", out |-> {<<>>}]
    ELSE LET hits == {r \in Range(database.rows) :
                         term = <<>> \/ where_clause(r, Unquote(term).text)}
         IN  [err |-> "",
              out |-> {Take([i \in 1..Len(s) |-> [c \in SearchCols |-> s[i][c]]], SearchLimit) :
                          s \in Ordered(hits, Newer)}]

\* a percentage kept as the fraction it is computed from
Rate(of, n) == [num |-> 100 * of, den |-> n]

Higher(f1, f2) == f1.num * f2.den > f2.num * f1.den

\* the CASE expression of the age query
AgeGroup(row) ==
    LET age == row["driver_age"]
    IN  IF age.tag # "null" /\ age.val >= 16 /\ age.val <= 25 THEN "16-25"
        ELSE IF age.tag # "null" /\ age.val >= 26 /\ age.val <= 35 THEN "26-35"
        ELSE IF age.tag # "null" /\ age.val >= 36 /\ age.val <= 45 THEN "36-45"
        ELSE "46+"

RowsWhere(database, P(_)) == {i \in 1..Len(database.rows) : P(database.rows[i])}

IsTrue(row, col) == row[col].tag = "int" /\ row[col].val = 1

Top10Name == "Top 10 Vehicles in Drug-Related Stops [cite: 56]"
AgeName == "Arrest Rate by Driver Age Group [cite: 59]"
ViolationName == "Violations with High Search/Arrest Rates [cite: 80]"

\* the keys of ANALYTICS_QUERIES
CatalogNames == {Top10Name, AgeName, ViolationName}

top_vehicles_query(database) ==
    LET drug(r) == IsTrue(r, "drugs_related_stop") /\ r["vehicle_number"].tag # "null"
        vehicles == {database.rows[i]["vehicle_number"].val : i \in RowsWhere(database, drug)}
        count(v) == LET this(r) == drug(r) /\ r["vehicle_number"].val = v
                    IN  Cardinality(RowsWhere(database, this))
        groups == {[vehicle_number |-> v, drug_stop_count |-> count(v)] : v \in vehicles}
        more(g1, g2) == g1.drug_stop_count > g2.drug_stop_count
    IN  {Take(s, TopVehicles) : s \in Ordered(groups, more)}

age_group_query(database) ==
    LET any(r) == TRUE
        labels == {AgeGroup(database.rows[i]) : i \in RowsWhere(database, any)}
        rate(g) == LET in(r) == AgeGroup(r) = g
                       arrested(r) == in(r) /\ IsTrue(r, "is_arrested")
                   IN  Rate(Cardinality(RowsWhere(database, arrested)),
                            Cardinality(RowsWhere(database, in)))
        groups == {[age_group |-> g, arrest_rate_percentage |-> rate(g)] : g \in labels}
        more(g1, g2) == Higher(g1.arrest_rate_percentage, g2.arrest_rate_percentage)
    IN  Ordered(groups, more)

violation_query(database) ==
    LET any(r) == TRUE
        labels == {database.rows[i]["violation"] : i \in RowsWhere(database, any)}
        n(v, col) == LET hit(r) == r["violation"] = v /\ IsTrue(r, col)
                     IN  Cardinality(RowsWhere(database, hit))
        all(v) == LET in(r) == r["violation"] = v IN Cardinality(RowsWhere(database, in))
        groups == {[violation |-> v,
                    search_rate |-> Rate(n(v, "search_conducted"), all(v)),
                    arrest_rate |-> Rate(n(v, "is_arrested"), all(v)),
                    combined_rate |-> [num |-> 100 * (n(v, "search_conducted") + n(v, "is_arrested")),
                                       den |-> 2 * all(v)]] : v \in labels}
        more(g1, g2) == Higher(g1.combined_rate, g2.combined_rate)
    IN  Ordered(groups, more)

\* ANALYTICS_QUERIES[name] run on the table
analytics_query(database, name) ==
    IF database.kind = "none" THEN [err |-> "OperationalError", out |-> {<<>>}]
    ELSE [err |-> "",
          out |-> CASE name = Top10Name -> top_vehicles_query(database)
                    [] name = AgeName   -> age_group_query(database)
                    [] OTHER            -> violation_query(database)]

-----------------------------------------------------------------------------
(* app.py: the functions for database interaction *)

\* get_database_engine, cached by st.cache_resource once it has returned:
\* TRUE when the script goes on, FALSE when it ends in st.error and st.stop
get_database_engine(database, cached, fail) ==
    cached \/ (~fail /\ database.kind # "none")

\* fetch_data: the outcomes [raised, errors, out] of running the statement
\* that evaluates to q; fail is the storage failing it, raised the exception
\* caught, errors the number of st.error calls, out the frame returned
fetch_data(q, fail) ==
    IF fail \/ q.err = "OperationalError"
    THEN {[raised |-> TRUE, errors |-> 1, out |-> <<>>]}
    ELSE IF q.err # ""
    THEN {[raised |-> TRUE, errors |-> 1, out |-> <<>>],
          [raised |-> FALSE, errors |-> 0, out |-> <<>>]}
    ELSE {[raised |-> FALSE, errors |-> 0, out |-> o] : o \in q.out}

LogCols == TableCols \ {"stop_id"}

\* log_new_stop with st.success after the except clause
SwallowLogNewStop(database, log_data, fail) ==
    LET done == to_sql(database, Frame(LogCols, <<log_data>>), FALSE)
    IN  IF fail \/ done.err # ""
        THEN [raised |-> TRUE, errors |-> 1, writes |-> 1, success |-> TRUE, db |-> database]
        ELSE [raised |-> FALSE, errors |-> 0, writes |-> 1, success |-> TRUE, db |-> done.db]

\* log_new_stop with a second to_sql in the except clause
RetryLogNewStop(database, log_data, fail) ==
    LET done == to_sql(database, Frame(LogCols, <<log_data>>), FALSE)
    IN  IF done.err # ""
        THEN [raised |-> TRUE, errors |-> 1, writes |-> 2, success |-> FALSE, db |-> database]
        ELSE IF fail
        THEN [raised |-> TRUE, errors |-> 1, writes |-> 2, success |-> FALSE, db |-> done.db]
        ELSE [raised |-> FALSE, errors |-> 0, writes |-> 1, success |-> TRUE, db |-> done.db]

\* log_new_stop: [raised, errors, writes, success, db]; raised is the
\* exception of to_sql, writes the number of to_sql calls, success st.success
log_new_stop(database, log_data, fail) ==
    LET done == to_sql(database, Frame(LogCols, <<log_data>>), FALSE)
    IN  IF fail \/ done.err # ""
        THEN [raised |-> TRUE, errors |-> 1, writes |-> 1, success |-> FALSE, db |-> database]
        ELSE [raised |-> FALSE, errors |-> 0, writes |-> 1, success |-> TRUE, db |-> done.db]

\* the dictionary new_log that the submit handler builds from the widgets
new_log(form) ==
    [c \in LogCols |->
        CASE c = "stop_date" -> Cell("date", form.stop_date)
          [] c = "stop_time" -> Cell("time", form.stop_time)
          [] c = "country_name" -> Str(form.country_name)
          [] c = "vehicle_number" -> Str(form.vehicle_number)
          [] c = "driver_gender" -> Str(IF form.driver_gender = "Other" THEN "O"
                                        ELSE form.driver_gender)
          [] c = "driver_age" -> Int_(form.driver_age)
          [] c = "violation" -> Str(form.violation)
          [] c = "violation_raw" -> Str(form.violation)
          [] c = "search_conducted" -> Bool(form.search_conducted)
          [] c = "drugs_related_stop" -> Bool(form.drugs_related_stop)
          [] c = "is_arrested" -> Bool(form.is_arrested)
          [] c = "stop_outcome" -> Str(form.stop_outcome)
          [] c = "stop_duration" -> Str(form.stop_duration)
          [] c = "driver_race" -> Str("Unknown")
          [] OTHER -> Str(IF ~form.search_conducted THEN NoneConducted ELSE "Vehicle Search")]

\* what the widgets of new_log_form hold at a submit
Forms ==
    {[stop_date |-> 3, stop_time |-> 1, country_name |-> <<"I", "n">>,
      vehicle_number |-> <<"R", "J">>, driver_gender |-> "Other", driver_age |-> 46,
      violation |-> "DUI", stop_duration |-> "<5 min", search_conducted |-> sc,
      drugs_related_stop |-> FALSE, is_arrested |-> sc, stop_outcome |-> "Warning"] :
        sc \in BOOLEAN}

\* what the search box holds
Terms == {<<>>, <<"R", "J">>, <<"j">>, <<"%">>, <<"'">>, <<"'", "'">>, <<"j", "'">>}

-----------------------------------------------------------------------------
(* The ingestion entry point *)

NoResponse == [op |-> "none", run |-> "none", raised |-> FALSE]

\* a run of process_data.py: the dataset file it finds (none, or a frame)
IngestRuns ==
    {[exists |-> FALSE, raw |-> EmptyFrame]} \cup
    {[exists |-> TRUE, raw |-> f] : f \in IngestFrames}

Ingest ==
    /\ \E run \in IngestRuns :
          /\ db' = ingest_main(db, run.exists, run.raw)
          /\ assigned' = assigned \cup StopIds(db')
    /\ ingested' = TRUE
    /\ resp' = [op |-> "ingest", run |-> "completed", raised |-> FALSE]
    /\ UNCHANGED <<engine, inserts, norm>>

\* the one-time ingestion that sets the ledger up
InitialIngest == ~ingested /\ Ingest

-----------------------------------------------------------------------------
(* The service: one script run per request.  run is how the script run
   ended: "completed", "stopped" (st.stop) or the exception that ended it;
   before is the table the request found. *)

Stopped(name) ==
    [op |-> name, run |-> "stopped", raised |-> TRUE, errors |-> 1, writes |-> 0,
     before |-> db]

\* the submit handler of new_log_form
SubmitLog ==
    /\ inserts < MaxInserts
    /\ inserts' = inserts + 1
    /\ \E form \in Forms, fail \in BOOLEAN :
          IF ~get_database_engine(db, engine, fail)
          THEN /\ resp' = Stopped("insert")
               /\ UNCHANGED <<db, assigned, engine>>
          ELSE LET r == log_new_stop(db, new_log(form), fail)
               IN  /\ engine' = TRUE
                   /\ db' = r.db
                   /\ assigned' = assigned \cup StopIds(r.db)
                   /\ resp' = [op |-> "insert", run |-> "completed", raised |-> r.raised,
                               errors |-> r.errors, writes |-> r.writes,
                               success |-> r.success, log_data |-> new_log(form),
                               before |-> db, known |-> assigned]
    /\ UNCHANGED <<ingested, norm>>

\* the Run Analytics Query button; name is the selection looked up in
\* ANALYTICS_QUERIES
RunAnalytics ==
    /\ \E name \in CatalogNames \cup {"nonexistent"}, fail \in BOOLEAN :
          IF ~get_database_engine(db, engine, fail)
          THEN /\ resp' = Stopped("query")
               /\ UNCHANGED engine
          ELSE /\ engine' = TRUE
               /\ IF name \notin CatalogNames
                  THEN resp' = [op |-> "query", run |-> "KeyError", raised |-> FALSE,
                                errors |-> 0, writes |-> 0, name |-> name, before |-> db]
                  ELSE \E got \in fetch_data(analytics_query(db, name), fail) :
                          resp' = [op |-> "query", run |-> "completed", raised |-> got.raised,
                                   errors |-> got.errors, writes |-> 0, name |-> name,
                                   results_df |-> got.out, before |-> db]
    /\ UNCHANGED <<db, assigned, ingested, inserts, norm>>

\* the search box and the table of the latest logs under it
SearchLogs ==
    /\ \E term \in Terms, fail \in BOOLEAN :
          IF ~get_database_engine(db, engine, fail)
          THEN /\ resp' = Stopped("search")
               /\ UNCHANGED engine
          ELSE /\ engine' = TRUE
               /\ \E got \in fetch_data(final_query(db, term), fail) :
                     resp' = [op |-> "search", run |-> "completed", raised |-> got.raised,
                              errors |-> got.errors, writes |-> 0, search_term |-> term,
                              latest_logs_df |-> got.out, before |-> db]
    /\ UNCHANGED <<db, assigned, ingested, inserts, norm>>

-----------------------------------------------------------------------------
(* The normalizer on its own *)

NotRun == Failed("not run")

NoNorm == [stage |-> 0, fn |-> "none", raw |-> EmptyFrame, once |-> NotRun, twice |-> NotRun]

NormBools ==
    {Bool(TRUE), Bool(FALSE), NaNStr, Cell("str", "false"), Cell("int", "0")}

NormRows ==
    {RawRow(Str(1), Str(1), Str(<<"I", "n">>), Int_(30), b, st, b, Bool(FALSE), veh) :
        b \in NormBools,
        st \in {NaNStr, Str("Frisk")},
        veh \in {NaNText, Str(<<"R", "J">>)}} \cup
    {RawRow(Str(1), Cell("badstr", 0), Str(<<"I", "n">>), Int_(30), Bool(TRUE), Str("Frisk"),
            Bool(TRUE), Bool(FALSE), Str(<<"R", "J">>))}

\* the frames of one row and more that the normalizer is applied to
NormFrames == {Frame(RawCols, r) : r \in SeqsUpTo(NormRows, MaxNormRows) \ {<<>>}}

Apply(fn, df) ==
    IF fn = "process_data" THEN preprocess_data(df) ELSE cleaning_preprocess_data(df)

Normalize ==
    /\ norm.stage = 0
    /\ norm' = [norm EXCEPT !.stage = 1, !.once = Apply(norm.fn, norm.raw)]
    /\ UNCHANGED <<db, assigned, engine, resp, ingested, inserts>>

NormalizeAgain ==
    /\ norm.stage = 1
    /\ norm.once.err = ""
    /\ norm' = [norm EXCEPT !.stage = 2, !.twice = Apply(norm.fn, norm.once.df)]
    /\ UNCHANGED <<db, assigned, engine, resp, ingested, inserts>>

-----------------------------------------------------------------------------
(* Specifications *)

Init ==
    /\ db = NoDatabase
    /\ assigned = {}
    /\ engine = FALSE
    /\ resp = NoResponse
    /\ ingested = FALSE
    /\ inserts = 0
    /\ norm = NoNorm

Next == Ingest \/ SubmitLog \/ RunAnalytics \/ SearchLogs

Spec == Init /\ [][Next]_vars

\* one bulk load, then the service
NextLedger == InitialIngest \/ SubmitLog \/ RunAnalytics \/ SearchLogs

SpecLedger == Init /\ [][NextLedger]_vars

\* preprocess_data of either file applied to a raw frame, then to its result
NormInit ==
    /\ db = NoDatabase
    /\ assigned = {}
    /\ engine = FALSE
    /\ resp = NoResponse
    /\ ingested = FALSE
    /\ inserts = 0
    /\ norm \in {[stage |-> 0, fn |-> f, raw |-> r, once |-> NotRun, twice |-> NotRun] :
                    f \in {"process_data", "data_cleaning"}, r \in NormFrames}

NormNext == Normalize \/ NormalizeAgain

SpecNorm == NormInit /\ [][NormNext]_vars

-----------------------------------------------------------------------------
(* Properties *)

IsInsert == resp.op = "insert" /\ resp.run = "completed"

\* the table cell holds what was submitted for it
Holds(cell, submitted) ==
    IF submitted.tag = "bool"
    THEN cell.tag = "int" /\ (cell.val = 1) = (submitted.val = "True")
    ELSE cell.tag \in {"text", "int"} /\ cell.val = submitted.val

IsPrefix(s, t) == Len(s) <= Len(t) /\ SubSeq(t, 1, Len(s)) = s

\* C1: after the initial bulk load, every successful insertRecord
\* (log_new_stop) adds exactly one row, the row holds the submitted fields,
\* its stop_id was never assigned before (by the bulk load or by an earlier
\* insert), and no two rows of the table share a stop_id.
C1_InsertAddsOneFreshRow ==
    /\ \A i, j \in 1..Len(db.rows) :
          ("stop_id" \in db.cols /\ i # j) =>
              db.rows[i]["stop_id"].val # db.rows[j]["stop_id"].val
    /\ (IsInsert /\ resp.success) =>
          /\ Len(db.rows) = Len(resp.before.rows) + 1
          /\ IsPrefix(resp.before.rows, db.rows)
          /\ "stop_id" \in db.cols
          /\ LET row == db.rows[Len(db.rows)]
             IN  /\ \A c \in LogCols : Holds(row[c], resp.log_data[c])
                 /\ row["stop_id"].tag = "int"
                 /\ row["stop_id"].val \notin resp.known

\* a second insert has succeeded on a table that the bulk load filled
C1_Witness ==
    /\ IsInsert /\ resp.success
    /\ inserts >= 2
    /\ Len(resp.before.rows) >= 3
    /\ Cardinality(resp.known) >= 3

\* C2 as stated: over all operations, the ingestion entry point included,
\* every persisted row is still there after the step.
C2_AppendOnly ==
    [][\A i \in 1..Len(db.rows) : \E j \in 1..Len(db'.rows) : db'.rows[j] = db.rows[i]]_vars

\* C2 as amended: insertRecord, the analytics queries and the record search
\* never delete or modify a persisted row, the table they leave starts with
\* the table they found; a run of the ingestion entry point removes the
\* database file and with it every row persisted before.
C2_ServiceAppendOnly ==
    [][resp'.op # "ingest" => IsPrefix(db.rows, db'.rows)]_vars

\* bulk-loaded and inserted rows are all there after a later analytics query
C2_Witness ==
    /\ resp.op = "query" /\ resp.run = "completed"
    /\ inserts >= 1
    /\ Len(db.rows) >= 3
    /\ db = resp.before

\* C3: every record in storage with search_conducted false has search_type
\* "None Conducted", whatever search_type the raw row came with.
C3_NoSearchNoneConducted ==
    \A i \in 1..Len(db.rows) :
        db.rows[i]["search_conducted"].val = 0 =>
            db.rows[i]["search_type"] = Cell("text", NoneConducted)

\* a parse error of a date or a time aborts the batch by design
Parsed(r) == r.err # "ValueError"

\* C4: normalization is idempotent: for every raw frame, also one with an
\* entirely null column, preprocess_data of its result completes and returns
\* the result unchanged.
C4_Idempotent ==
    /\ (norm.stage >= 1 /\ Parsed(norm.once)) => norm.once.err = ""
    /\ norm.stage = 2 => (norm.twice.err = "" /\ norm.twice.df = norm.once.df)

\* C5: every raw row with a missing vehicle_number has vehicle_number
\* "Unknown" in the normalized frame, also when it is missing in all rows.
C5_MissingVehicleUnknown ==
    (norm.stage >= 1 /\ Parsed(norm.once)) =>
        \A i \in 1..Len(norm.raw.rows) :
            isna(norm.raw.rows[i]["vehicle_number"]) =>
                /\ norm.once.err = ""
                /\ norm.once.df.rows[i]["vehicle_number"] = Cell("str", Unknown)

\* s occurs in text, letters compared without regard to case
RECURSIVE ContainsFold(_, _)
ContainsFold(text, s) ==
    \/ /\ Len(s) <= Len(text)
       /\ \A k \in 1..Len(s) : Fold(text[k]) = Fold(s[k])
    \/ text # <<>> /\ ContainsFold(Tail(text), s)

\* C6: for every search term the record search returns only rows whose
\* country_name or vehicle_number contains the term, newest first by
\* (stop_date, stop_time), and at most 50 of them.
C6_SearchOnlyMatches ==
    (resp.op = "search" /\ resp.run = "completed") =>
        LET out == resp.latest_logs_df
        IN  /\ Len(out) <= SearchLimit
            /\ \A i \in 1..Len(out) :
                  \/ ContainsFold(out[i]["country_name"].val, resp.search_term)
                  \/ ContainsFold(out[i]["vehicle_number"].val, resp.search_term)
            /\ \A i, j \in 1..Len(out) : i < j => ~Newer(out[j], out[i])

C8_FailureReportedOnce ==
    (resp.op \in {"insert", "query", "search"} /\ resp.raised) =>
        /\ resp.errors = 1
        /\ resp.writes <= 1
        /\ db = resp.before
        /\ resp.run \in {"completed", "stopped"}
        /\ resp.run = "completed" =>
              /\ resp.op = "insert" => (resp.writes = 1 /\ ~resp.success)
              /\ resp.op = "query" => resp.results_df = <<>>
              /\ resp.op = "search" => resp.latest_logs_df = <<>>
        /\ ENABLED SearchLogs
        /\ ENABLED RunAnalytics
        /\ inserts < MaxInserts => ENABLED SubmitLog

\* an insert was rejected on a table that holds rows
C8_Witness ==
    /\ IsInsert /\ resp.raised
    /\ Len(db.rows) >= 2

\* the rows of the table whose driver_age lies in lo..hi
InBracket(database, lo, hi) ==
    LET in(r) == r["driver_age"].tag = "int" /\ r["driver_age"].val >= lo /\ r["driver_age"].val <= hi
    IN  RowsWhere(database, in)

Brackets ==
    {[label |-> "16-25", lo |-> 16, hi |-> 25], [label |-> "26-35", lo |-> 26, hi |-> 35],
     [label |-> "36-45", lo |-> 36, hi |-> 45], [label |-> "46+", lo |-> 46, hi |-> 200]}

\* C9: the arrest-rate report has one row per non-empty bracket; 16-25,
\* 26-35 and 36-45 are closed intervals, 46+ holds the ages from 46 on, an
\* age below 16 is in none; the value of a bracket is 100 * arrested / rows,
\* and the rows come in descending order of it.
C9_AgeBrackets ==
    (resp.op = "query" /\ resp.run = "completed" /\ ~resp.raised /\ resp.name = AgeName) =>
        LET out == resp.results_df
            arrested(r) == IsTrue(r, "is_arrested")
        IN  /\ \A b \in Brackets :
                  LET members == InBracket(resp.before, b.lo, b.hi)
                      shown == {i \in 1..Len(out) : out[i].age_group = b.label}
                  IN  /\ Cardinality(shown) = IF members = {} THEN 0 ELSE 1
                      /\ \A i \in shown :
                            out[i].arrest_rate_percentage.num * Cardinality(members) =
                            100 * Cardinality(members \cap RowsWhere(resp.before, arrested))
                              * out[i].arrest_rate_percentage.den
            /\ \A i, j \in 1..Len(out) :
                  i < j => ~Higher(out[j].arrest_rate_percentage, out[i].arrest_rate_percentage)

\* the two-valued boolean the claim gives a raw representation: missing,
\* empty, zero and "false" are false, all else is true
Coerced(c) ==
    IF isna(c) \/ (c.tag = "bool" /\ c.val = "False") \/ (c.tag = "int" /\ c.val = "0")
       \/ (c.tag = "str" /\ c.val \in {"", "false"})
    THEN Bool(FALSE) ELSE Bool(TRUE)

\* C10: normalization makes search_conducted, is_arrested and
\* drugs_related_stop of every row a boolean, never null: false for a
\* missing, empty, zero or "false" raw value, true for every other.
C10_StrictBooleans ==
    (norm.stage >= 1 /\ norm.once.err = "") =>
        \A i \in 1..Len(norm.raw.rows), k \in 1..Len(BoolCols) :
            norm.once.df.rows[i][BoolCols[k]] = Coerced(norm.raw.rows[i][BoolCols[k]])

====
